---- MODULE Spec2Model ----
(***************************************************************************)
(* Frame synchronization of App::render (src/src/lib/app.rs): the CPU      *)
(* control thread steps through one render call while the GPU completes    *)
(* submitted batches asynchronously.                                       *)
(*                                                                         *)
(* Calls the code unwraps (wait_for_fences, reset_fences, queue_submit,    *)
(* recreate_swapchain at present, queue_wait_idle) abort the process when  *)
(* they fail; only the results the code matches on are modelled as inputs. *)
(***************************************************************************)
EXTENDS Integers, Sequences, FiniteSets, TLC

\* ------------------------------------------------------------------ bounds
\* Largest number of images a (re)created swapchain may report.
MaxImages == 3
\* Number of frames that may reach the advance step in one behaviour.
MaxFrames == 3

\* --------------------------------------------------------------- constants
MAX_FRAMES_IN_FLIGHT == 2
\* vk::Fence::null()
FenceNull == 0

VARIABLES
    frame,             \* App.frame
    resized,           \* App.resized
    swapchain_images,  \* data.swapchain_images.len()
    images_in_flight,  \* data.images_in_flight: sequence of fence handles
    fence_signaled,    \* device state of each in_flight fence
    gpu_pending,       \* batches submitted to the graphics queue, not complete
    same_queue,        \* data.graphics_queue = data.present_queue
    pc,                \* position of the control thread inside render
    image_index,       \* render's local image_index
    in_flight_fence,   \* render's local in_flight_fence
    ret,               \* what the last render call returned
    log,               \* device calls made by the current / last render call
    entry_table,       \* images_in_flight when the call was entered
    counter            \* number of frames that reached the advance step

vars == <<frame, resized, swapchain_images, images_in_flight, fence_signaled,
          gpu_pending, same_queue, pc, image_index, in_flight_fence, ret, log,
          entry_table, counter>>

\* State of the object lifecycle (App::create, recreate_swapchain, destroy).
VARIABLES
    t_pc,              \* which function the control thread is in
    t_step,            \* index of the next device call of that function
    alive,             \* objects created and not yet destroyed / freed
    history,           \* every device call made so far, in order
    n_rebuilds,        \* number of recreate_swapchain calls made
    validation         \* VALIDATION_ENABLED (cfg!(debug_assertions))

tvars == <<t_pc, t_step, alive, history, n_rebuilds, validation>>

\* State of command recording (App::update_command_buffer).
VARIABLES
    r_pc,                       \* the last operation: update, recreate, ..
    r_image,                    \* image_index of the last update_command_buffer
    r_images,                   \* data.swapchain_images.len()
    models,                     \* App.models
    secondary_command_buffers,  \* per image: the handles allocated so far
    primary,                    \* per image: commands of the primary buffer
    secondary,                  \* per image: contents of each secondary buffer
    recorded                    \* per image: drawable indices ever recorded

rvars == <<r_pc, r_image, r_images, models, secondary_command_buffers, primary,
           secondary, recorded>>

\* State of one get_memory_type_index call.
VARIABLES
    m_pc,              \* "off", "call" or "done"
    memory_type_count, \* memory.memory_type_count
    memory_types,      \* memory.memory_types[i].property_flags
    memory_type_bits,  \* requirements.memory_type_bits
    properties,        \* the required property flags
    m_result           \* what the call returned

mvars == <<m_pc, memory_type_count, memory_types, memory_type_bits,
           properties, m_result>>

\* The per-image uniform buffer tables (create_uniform_buffers).
VARIABLES
    uniform_buffers,         \* data.uniform_buffers
    uniform_buffers_memory   \* data.uniform_buffers_memory

uvars == <<uniform_buffers, uniform_buffers_memory>>

\* The per-slot semaphores of create_sync_objects, as the device sees them.
VARIABLES
    image_available_semaphore,  \* slot -> "unsignaled", "signaled", "waited"
    render_finished_semaphore   \* slot -> "unsignaled", "pending",
                                \*         "pending_waited", "signaled"
svars == <<image_available_semaphore, render_finished_semaphore>>

\* State of load_model.
VARIABLES
    l_pc,              \* "off", "loop" or "done"
    obj_models,        \* the models tobj::load_obj_buf returned
    l_model,           \* position of the outer loop (for model in &models)
    l_index,           \* position of the inner loop (for index in ..indices)
    vertices,          \* data.vertices
    indices,           \* data.indices
    unique_vertices    \* the HashMap from vertex to its index in vertices

lvars == <<l_pc, obj_models, l_model, l_index, vertices, indices,
           unique_vertices>>

\* State of the event loop of main.
VARIABLES
    e_pc,              \* "off", "run", "panicked" or "exited"
    destroying,        \* main's local flag
    control_flow,      \* *control_flow as left by the last event
    calls,             \* the calls made on app, in order
    events             \* the events handled, in order

evars == <<e_pc, destroying, control_flow, calls, events>>

\* State of pick_physical_device.
VARIABLES
    d_pc,              \* "off", "loop" or "done"
    physical_devices,  \* instance.enumerate_physical_devices()
    d_index,           \* position of the for loop
    physical_device,   \* data.physical_device (0: not set)
    d_result           \* how the call ended

dvars == <<d_pc, physical_devices, d_index, physical_device, d_result>>

allvars == <<vars, uvars, svars, tvars, rvars, mvars, lvars, evars, dvars>>

\* The variables each part of the model leaves alone.
not_render == <<tvars, rvars, mvars, lvars, evars, dvars>>

not_teardown == <<vars, uvars, svars, rvars, mvars, lvars, evars, dvars>>

not_record == <<vars, uvars, svars, tvars, mvars, lvars, evars, dvars>>

not_memory == <<vars, uvars, svars, tvars, rvars, lvars, evars, dvars>>

not_load == <<vars, uvars, svars, tvars, rvars, mvars, evars, dvars>>

not_loop == <<vars, uvars, svars, tvars, rvars, mvars, lvars, dvars>>

not_pick == <<vars, uvars, svars, tvars, rvars, mvars, lvars, evars>>

\* The parts of the model a specification does not exercise stay parked.
TeardownOff ==
    /\ t_pc = "off"
    /\ t_step = 0
    /\ alive = {}
    /\ history = << >>
    /\ n_rebuilds = 0
    /\ validation = FALSE

RecordOff ==
    /\ r_pc = "off"
    /\ r_image = 0
    /\ r_images = 0
    /\ models = 0
    /\ secondary_command_buffers = << >>
    /\ primary = << >>
    /\ secondary = << >>
    /\ recorded = << >>

MemoryOff ==
    /\ m_pc = "off"
    /\ memory_type_count = 0
    /\ memory_types = << >>
    /\ memory_type_bits = 0
    /\ properties = {}
    /\ m_result = [kind |-> "none", index |-> 0]

LoadOff ==
    /\ l_pc = "off"
    /\ obj_models = << >>
    /\ l_model = 0
    /\ l_index = 0
    /\ vertices = << >>
    /\ indices = << >>
    /\ unique_vertices = << >>

LoopOff ==
    /\ e_pc = "off"
    /\ destroying = FALSE
    /\ control_flow = "Poll"
    /\ calls = << >>
    /\ events = << >>

PickOff ==
    /\ d_pc = "off"
    /\ physical_devices = << >>
    /\ d_index = 0
    /\ physical_device = 0
    /\ d_result = "none"

OthersOff == LoadOff /\ LoopOff /\ PickOff

Slots == 0 .. (MAX_FRAMES_IN_FLIGHT - 1)

\* data.in_flight_fences[f]: the handle of slot f's fence (never null).
in_flight_fences(f) == f + 1

Fences == {in_flight_fences(f) : f \in Slots}

ImageCounts == 1 .. MaxImages

PresentResults == {"success", "suboptimal", "out_of_date", "error"}

Event(op, arg) == [op |-> op, arg |-> arg]

Has(op) == \E k \in 1 .. Len(log) : log[k].op = op

\* Has(op) with the given argument.
HasArg(op, arg) == \E k \in 1 .. Len(log) : log[k] = Event(op, arg)

\* The position and the argument of the first op the call logged.
PosOf(op) == CHOOSE k \in 1 .. Len(log) : log[k].op = op

ArgOf(op) == log[PosOf(op)].arg

\* ------------------------------------------------------------ device calls
\* wait_for_fences returning at once, whatever the fence's state.
wait_for_fences_nowait(f) == TRUE

\* device.wait_for_fences(&[f], true, u64::MAX): returns once f is signaled.
wait_for_fences(f) == fence_signaled[f]

\* device_wait_idle returning at once, whatever the queues hold.
device_wait_idle_skipped == TRUE

\* device.device_wait_idle(): returns once no queue has work left.
device_wait_idle == gpu_pending = << >>

\* device.queue_wait_idle(present_queue): returns once the present queue has
\* no submitted batch left; it covers the graphics batches only when the two
\* queue handles are the same queue.
queue_wait_idle == same_queue => gpu_pending = << >>

\* Vec::resize(new_len, value): truncates, or appends copies of value; the
\* elements below new_len are kept.
vec_resize(v, new_len, value) ==
    [k \in 1 .. new_len |-> IF k <= Len(v) THEN v[k] ELSE value]

\* for _ in 0..n { v.push(create_buffer(..)) }: the handle pushed is the
\* number of the element.
RECURSIVE push_buffers(_, _)
push_buffers(v, n) ==
    IF n = 0 THEN v
    ELSE LET w == push_buffers(v, n - 1) IN Append(w, Len(w) + 1)

\* create_uniform_buffers without the two clear() calls.
create_uniform_buffers_no_clear(v, n) == push_buffers(v, n)

\* create_uniform_buffers on one of its two tables: clear(), then one push per
\* swapchain image.
create_uniform_buffers(v, n) == push_buffers(<< >>, n)

\* create_sync_objects: one null fence reference per swapchain image.
null_table(n) == [k \in 1 .. n |-> FenceNull]

\* image_in_flight_ready waiting on the slot's own fence instead of the
\* image's reference.
image_in_flight_waits_slot_fence(i) == wait_for_fences(in_flight_fence)

\* image_in_flight_ready without the wait on a non-null reference.
image_in_flight_skip(i) == TRUE

\* let image_in_flight = images_in_flight[image_index];
\* if !image_in_flight.is_null() { wait_for_fences(image_in_flight) }
image_in_flight_ready(i) ==
    LET image_in_flight == images_in_flight[i + 1]
    IN  IF image_in_flight # FenceNull THEN wait_for_fences(image_in_flight)
        ELSE TRUE

\* changed without the SUBOPTIMAL_KHR disjunct.
changed_out_of_date_only(result) == result = "out_of_date"

\* result == Ok(SUBOPTIMAL_KHR) || result == Err(OUT_OF_DATE_KHR)
changed(result) == result = "suboptimal" \/ result = "out_of_date"

\* The branch condition without self.resized.
should_recreate_ignores_resized(result) ==
    result = "suboptimal" \/ result = "out_of_date"

\* if self.resized || changed
should_recreate(result) == resized \/ changed(result)

\* The advance step leaving the slot index where it was.
next_frame_stuck(f) == f

\* (self.frame + 1) % MAX_FRAMES_IN_FLIGHT
next_frame(f) == (f + 1) % MAX_FRAMES_IN_FLIGHT

\* ------------------------------------------------------------------- Init
\* The state after App::create had the fences been created without
\* FenceCreateFlags::SIGNALED.
Init_fences_unsignaled ==
    /\ frame = 0
    /\ resized = FALSE
    /\ swapchain_images \in ImageCounts
    /\ images_in_flight = null_table(swapchain_images)
    /\ fence_signaled = [f \in Fences |-> FALSE]
    /\ gpu_pending = << >>
    /\ same_queue \in BOOLEAN
    /\ pc = "idle"
    /\ image_index = 0
    /\ in_flight_fence = in_flight_fences(0)
    /\ ret = "none"
    /\ log = << >>
    /\ entry_table = images_in_flight
    /\ counter = 0
    /\ uniform_buffers = create_uniform_buffers(<< >>, swapchain_images)
    /\ uniform_buffers_memory = create_uniform_buffers(<< >>, swapchain_images)
    /\ image_available_semaphore = [f \in Slots |-> "unsignaled"]
    /\ render_finished_semaphore = [f \in Slots |-> "unsignaled"]
    /\ TeardownOff
    /\ RecordOff
    /\ MemoryOff
    /\ OthersOff

\* State after App::create: frame 0, resized false, every slot fence created
\* signaled, no fence reference bound, nothing submitted.
Init ==
    /\ frame = 0
    /\ resized = FALSE
    /\ swapchain_images \in ImageCounts
    /\ images_in_flight = null_table(swapchain_images)
    /\ fence_signaled = [f \in Fences |-> TRUE]
    /\ gpu_pending = << >>
    /\ same_queue \in BOOLEAN
    /\ pc = "idle"
    /\ image_index = 0
    /\ in_flight_fence = in_flight_fences(0)
    /\ ret = "none"
    /\ log = << >>
    /\ entry_table = images_in_flight
    /\ counter = 0
    /\ uniform_buffers = create_uniform_buffers(<< >>, swapchain_images)
    /\ uniform_buffers_memory = create_uniform_buffers(<< >>, swapchain_images)
    /\ image_available_semaphore = [f \in Slots |-> "unsignaled"]
    /\ render_finished_semaphore = [f \in Slots |-> "unsignaled"]
    /\ TeardownOff
    /\ RecordOff
    /\ MemoryOff
    /\ OthersOff

\* ------------------------------------------------------------- App::render
\* Entry and step 1: read the slot's fence and block until it is signaled.
RenderWaitFence ==
    /\ pc = "idle"
    /\ counter < MaxFrames
    /\ wait_for_fences(in_flight_fences(frame))
    /\ in_flight_fence' = in_flight_fences(frame)
    /\ pc' = "acquire"
    /\ ret' = "none"
    /\ log' = << Event("wait_fence", in_flight_fences(frame)) >>
    /\ entry_table' = images_in_flight
    /\ UNCHANGED <<frame, resized, swapchain_images, images_in_flight,
                   fence_signaled, gpu_pending, same_queue, image_index,
                   counter>>
    /\ UNCHANGED not_render
    /\ UNCHANGED uvars
    /\ UNCHANGED svars

\* acquire_next_image_khr returned Ok((image_index, _)): the success code
\* (SUCCESS or SUBOPTIMAL_KHR) is dropped by the match.
RenderAcquireOk ==
    /\ pc = "acquire"
    /\ \E i \in 0 .. (swapchain_images - 1), suboptimal \in BOOLEAN :
          /\ image_index' = i
          /\ log' = Append(log, Event(IF suboptimal THEN "acquire_suboptimal"
                                      ELSE "acquire_success", i))
    /\ image_available_semaphore' =
          [image_available_semaphore EXCEPT ![frame] = "signaled"]
    /\ pc' = "image_wait"
    /\ UNCHANGED <<frame, resized, swapchain_images, images_in_flight,
                   fence_signaled, gpu_pending, same_queue, in_flight_fence,
                   ret, entry_table, counter>>
    /\ UNCHANGED not_render
    /\ UNCHANGED uvars
    /\ UNCHANGED render_finished_semaphore

\* The out-of-date arm with reset_fences moved ahead of the acquire match.
RenderAcquireOutOfDate_reset_first ==
    /\ pc = "acquire"
    /\ fence_signaled' = [fence_signaled EXCEPT ![in_flight_fence] = FALSE]
    /\ log' = Append(log, Event("acquire_out_of_date", 0))
    /\ pc' = "recreate_acquire"
    /\ UNCHANGED <<frame, resized, swapchain_images, images_in_flight,
                   gpu_pending, same_queue, image_index, in_flight_fence, ret,
                   entry_table, counter>>
    /\ UNCHANGED not_render
    /\ UNCHANGED uvars
    /\ UNCHANGED svars

\* Err(OUT_OF_DATE_KHR) => return self.recreate_swapchain(window)
RenderAcquireOutOfDate ==
    /\ pc = "acquire"
    /\ log' = Append(log, Event("acquire_out_of_date", 0))
    /\ pc' = "recreate_acquire"
    /\ UNCHANGED <<frame, resized, swapchain_images, images_in_flight,
                   fence_signaled, gpu_pending, same_queue, image_index,
                   in_flight_fence, ret, entry_table, counter>>
    /\ UNCHANGED not_render
    /\ UNCHANGED uvars
    /\ UNCHANGED svars

\* The error arm with reset_fences moved ahead of the acquire match.
RenderAcquireError_reset_first ==
    /\ pc = "acquire"
    /\ fence_signaled' = [fence_signaled EXCEPT ![in_flight_fence] = FALSE]
    /\ log' = Append(log, Event("acquire_error", 0))
    /\ pc' = "idle"
    /\ ret' = "err"
    /\ UNCHANGED <<frame, resized, swapchain_images, images_in_flight,
                   gpu_pending, same_queue, image_index, in_flight_fence,
                   entry_table, counter>>
    /\ UNCHANGED not_render
    /\ UNCHANGED uvars
    /\ UNCHANGED svars

\* Err(e) => return Err(anyhow!(e))
RenderAcquireError ==
    /\ pc = "acquire"
    /\ log' = Append(log, Event("acquire_error", 0))
    /\ pc' = "idle"
    /\ ret' = "err"
    /\ UNCHANGED <<frame, resized, swapchain_images, images_in_flight,
                   fence_signaled, gpu_pending, same_queue, image_index,
                   in_flight_fence, entry_table, counter>>
    /\ UNCHANGED not_render
    /\ UNCHANGED uvars
    /\ UNCHANGED svars

\* Steps 3 and 4: wait on the acquired image's fence reference when it is not
\* null, then bind the reference to the slot's fence.
RenderImageWait ==
    /\ pc = "image_wait"
    /\ image_in_flight_ready(image_index)
    /\ images_in_flight' =
          [images_in_flight EXCEPT ![image_index + 1] = in_flight_fence]
    /\ log' = Append(log, Event("bind", image_index))
    /\ pc' = "record"
    /\ UNCHANGED <<frame, resized, swapchain_images, fence_signaled,
                   gpu_pending, same_queue, image_index, in_flight_fence, ret,
                   entry_table, counter>>
    /\ UNCHANGED not_render
    /\ UNCHANGED uvars
    /\ UNCHANGED svars

\* Step 5: update_command_buffer(image_index), update_uniform_buffer(image_index).
RenderRecord ==
    /\ pc = "record"
    /\ log' = Append(log, Event("record", image_index))
    /\ pc' = "submit"
    /\ UNCHANGED <<frame, resized, swapchain_images, images_in_flight,
                   fence_signaled, gpu_pending, same_queue, image_index,
                   in_flight_fence, ret, entry_table, counter>>
    /\ UNCHANGED not_render
    /\ UNCHANGED uvars
    /\ UNCHANGED svars

\* The submit waiting on the other slot's image_available semaphore.
submit_semaphores_wait_other(f) ==
    [wait |-> (f + 1) % MAX_FRAMES_IN_FLIGHT, signal |-> f]

\* wait_semaphores = &[image_available_semaphore[self.frame]];
\* signal_semaphores = &[render_finished_semaphore[self.frame]]
submit_semaphores(f) == [wait |-> f, signal |-> f]

\* Step 6: reset_fences(&[in_flight_fence]); queue_submit(graphics_queue,
\* command_buffers[image_index], in_flight_fence) with the submit_info built
\* from the slot's two semaphores.
RenderSubmit ==
    /\ pc = "submit"
    /\ fence_signaled' = [fence_signaled EXCEPT ![in_flight_fence] = FALSE]
    /\ gpu_pending' = Append(gpu_pending,
                             [fence |-> in_flight_fence, image |-> image_index,
                              wait |-> submit_semaphores(frame).wait,
                              signal |-> submit_semaphores(frame).signal])
    /\ image_available_semaphore' =
          [image_available_semaphore EXCEPT
              ![submit_semaphores(frame).wait] = "waited"]
    /\ render_finished_semaphore' =
          [render_finished_semaphore EXCEPT
              ![submit_semaphores(frame).signal] = "pending"]
    /\ log' = log \o << Event("reset_fence", in_flight_fence),
                        Event("submit", image_index) >>
    /\ pc' = "present"
    /\ UNCHANGED <<frame, resized, swapchain_images, images_in_flight,
                   same_queue, image_index, in_flight_fence, ret, entry_table,
                   counter>>
    /\ UNCHANGED not_render
    /\ UNCHANGED uvars

\* The semaphore wait of a present on render_finished[f]: a signal that has
\* arrived is consumed, a signal still to come is consumed when it arrives.
present_wait(f) ==
    [render_finished_semaphore EXCEPT
        ![f] = IF @ = "pending" THEN "pending_waited"
               ELSE IF @ = "signaled" THEN "unsignaled"
               ELSE @]

\* Step 7: queue_present_khr waiting on signal_semaphores, then the branch on
\* resized / changed / Err.
\* The result event carries self.resized as read by the branch (1 = set).
RenderPresent ==
    /\ pc = "present"
    /\ render_finished_semaphore' = present_wait(frame)
    /\ \E result \in PresentResults :
          /\ log' = log \o << Event("present", image_index),
                              Event("present_" \o result,
                                    IF resized THEN 1 ELSE 0) >>
          /\ IF should_recreate(result)
             THEN /\ resized' = FALSE
                  /\ pc' = "recreate_present"
                  /\ ret' = ret
             ELSE IF result = "error"
             THEN /\ resized' = resized
                  /\ pc' = "idle"
                  /\ ret' = "err"
             ELSE /\ resized' = resized
                  /\ pc' = "queue_wait_idle"
                  /\ ret' = ret
    /\ UNCHANGED <<frame, swapchain_images, images_in_flight, fence_signaled,
                   gpu_pending, same_queue, image_index, in_flight_fence,
                   entry_table, counter>>
    /\ UNCHANGED not_render
    /\ UNCHANGED uvars
    /\ UNCHANGED image_available_semaphore

\* Step 8: queue_wait_idle(present_queue); frame = (frame + 1) % N; Ok(()).
RenderAdvance ==
    /\ pc = "queue_wait_idle"
    /\ queue_wait_idle
    /\ frame' = next_frame(frame)
    /\ counter' = counter + 1
    /\ log' = Append(log, Event("advance", frame))
    /\ pc' = "idle"
    /\ ret' = "ok"
    /\ UNCHANGED <<resized, swapchain_images, images_in_flight, fence_signaled,
                   gpu_pending, same_queue, image_index, in_flight_fence,
                   entry_table>>
    /\ UNCHANGED not_render
    /\ UNCHANGED uvars
    /\ UNCHANGED svars

\* -------------------------------------------------- App::recreate_swapchain
\* device_wait_idle, destroy_swapchain, the create_* calls, then
\* images_in_flight.resize(swapchain_images.len(), Fence::null()).
\* n is the image count the new swapchain reports.
recreate_swapchain(n) ==
    /\ device_wait_idle
    /\ swapchain_images' = n
    /\ images_in_flight' = vec_resize(images_in_flight, n, FenceNull)
    /\ uniform_buffers' = create_uniform_buffers(uniform_buffers, n)
    /\ uniform_buffers_memory' =
          create_uniform_buffers(uniform_buffers_memory, n)
    /\ log' = log \o << Event("device_wait_idle", 0), Event("recreate", n) >>

\* The acquire-time rebuild also consuming the resize request.
RecreateAtAcquire_clears_resized ==
    /\ pc = "recreate_acquire"
    /\ \E n \in ImageCounts : recreate_swapchain(n)
    /\ resized' = FALSE
    /\ pc' = "idle"
    /\ ret' = "ok"
    /\ UNCHANGED <<frame, fence_signaled, gpu_pending, same_queue,
                   image_index, in_flight_fence, entry_table, counter>>
    /\ UNCHANGED not_render
    /\ UNCHANGED svars

\* recreate_swapchain called from the acquire match arm; render returns its Ok.
RecreateAtAcquire ==
    /\ pc = "recreate_acquire"
    /\ \E n \in ImageCounts : recreate_swapchain(n)
    /\ pc' = "idle"
    /\ ret' = "ok"
    /\ UNCHANGED <<frame, resized, fence_signaled, gpu_pending, same_queue,
                   image_index, in_flight_fence, entry_table, counter>>
    /\ UNCHANGED not_render
    /\ UNCHANGED svars

\* The present-time rebuild written as `return self.recreate_swapchain(window)`.
RecreateAtPresent_returns ==
    /\ pc = "recreate_present"
    /\ \E n \in ImageCounts : recreate_swapchain(n)
    /\ pc' = "idle"
    /\ ret' = "ok"
    /\ UNCHANGED <<frame, resized, fence_signaled, gpu_pending, same_queue,
                   image_index, in_flight_fence, entry_table, counter>>
    /\ UNCHANGED not_render
    /\ UNCHANGED svars

\* recreate_swapchain called after present; render goes on to queue_wait_idle.
RecreateAtPresent ==
    /\ pc = "recreate_present"
    /\ \E n \in ImageCounts : recreate_swapchain(n)
    /\ pc' = "queue_wait_idle"
    /\ UNCHANGED <<frame, resized, fence_signaled, gpu_pending, same_queue,
                   image_index, in_flight_fence, ret, entry_table, counter>>
    /\ UNCHANGED not_render
    /\ UNCHANGED svars

\* ------------------------------------------------------------ App::destroy
\* The caller enters destroy between render calls; the first statement,
\* device_wait_idle, blocks while any batch is outstanding.
DestroyEnter ==
    /\ pc = "idle"
    /\ pc' = "destroy"
    /\ ret' = "none"
    /\ log' = << Event("destroy_enter", 0) >>
    /\ UNCHANGED <<frame, resized, swapchain_images, images_in_flight,
                   fence_signaled, gpu_pending, same_queue, image_index,
                   in_flight_fence, entry_table, counter>>
    /\ UNCHANGED not_render
    /\ UNCHANGED uvars
    /\ UNCHANGED svars

\* device_wait_idle has returned: destroy_swapchain and the destroy calls of
\* every owned object run; the App is not used again.
DestroyTeardown ==
    /\ pc = "destroy"
    /\ device_wait_idle
    /\ pc' = "destroyed"
    /\ log' = log \o << Event("device_wait_idle", 0), Event("destroy", 0) >>
    /\ UNCHANGED <<frame, resized, swapchain_images, images_in_flight,
                   fence_signaled, gpu_pending, same_queue, image_index,
                   in_flight_fence, ret, entry_table, counter>>
    /\ UNCHANGED not_render
    /\ UNCHANGED uvars
    /\ UNCHANGED svars

\* ------------------------------------------------------------- environment
\* The windowing collaborator sets the public resized flag between calls.
NotifyResized ==
    /\ pc = "idle"
    /\ ~resized
    /\ resized' = TRUE
    /\ UNCHANGED <<frame, swapchain_images, images_in_flight, fence_signaled,
                   gpu_pending, same_queue, pc, image_index, in_flight_fence,
                   ret, log, entry_table, counter>>
    /\ UNCHANGED not_render
    /\ UNCHANGED uvars
    /\ UNCHANGED svars

\* The GPU completes one submitted batch: its semaphore wait has been
\* satisfied, it signals its signal semaphore and the fence given to
\* queue_submit.
GPUComplete ==
    /\ \E k \in 1 .. Len(gpu_pending) :
          /\ fence_signaled' =
                [fence_signaled EXCEPT ![gpu_pending[k].fence] = TRUE]
          /\ image_available_semaphore' =
                [image_available_semaphore EXCEPT
                    ![gpu_pending[k].wait] = "unsignaled"]
          /\ render_finished_semaphore' =
                [render_finished_semaphore EXCEPT
                    ![gpu_pending[k].signal] =
                        IF @ = "pending_waited" THEN "unsignaled"
                        ELSE "signaled"]
          /\ gpu_pending' =
                [j \in 1 .. (Len(gpu_pending) - 1) |->
                    IF j < k THEN gpu_pending[j] ELSE gpu_pending[j + 1]]
    /\ UNCHANGED <<frame, resized, swapchain_images, images_in_flight,
                   same_queue, pc, image_index, in_flight_fence, ret, log,
                   entry_table, counter>>
    /\ UNCHANGED not_render
    /\ UNCHANGED uvars

Next ==
    \/ RenderWaitFence
    \/ RenderAcquireOk
    \/ RenderAcquireOutOfDate
    \/ RenderAcquireError
    \/ RenderImageWait
    \/ RenderRecord
    \/ RenderSubmit
    \/ RenderPresent
    \/ RenderAdvance
    \/ RecreateAtAcquire
    \/ RecreateAtPresent
    \/ DestroyEnter
    \/ DestroyTeardown
    \/ NotifyResized
    \/ GPUComplete

Spec == Init /\ [][Next]_allvars

\* ------------------------------------------------------------ type invariant
TypeOK ==
    /\ frame \in Nat
    /\ resized \in BOOLEAN
    /\ swapchain_images \in ImageCounts
    /\ Len(images_in_flight) \in ImageCounts
    /\ \A k \in 1 .. Len(images_in_flight) :
          images_in_flight[k] \in Fences \cup {FenceNull}
    /\ same_queue \in BOOLEAN
    /\ ret \in {"none", "ok", "err"}

\* ------------------------------------------------------------------ claims
\* The call has returned (pc is idle after at least one call).
Returned == pc = "idle" /\ ret # "none"

\* The control thread is past the present branch of the current / last call.
PastPresent == pc \in {"recreate_present", "queue_wait_idle", "idle"}

\* Every table entry the call left is the entry it found, or null where the
\* table grew: no reference was bound by this call.
TableNotRebound ==
    \A k \in 1 .. Len(images_in_flight) :
        images_in_flight[k] =
            (IF k <= Len(entry_table) THEN entry_table[k] ELSE FenceNull)

\* C1: no swapchain image is the target of two GPU submissions that are both
\* still outstanding, also when there are fewer images than frames in flight.
C1_NoImageTwiceOutstanding ==
    \A a, b \in 1 .. Len(gpu_pending) :
        a # b => gpu_pending[a].image # gpu_pending[b].image

\* C1 witness: one image only, its batch of the other slot still outstanding,
\* and the control thread holding the same image at the cross-image wait.
C1_Witness ==
    /\ swapchain_images = 1
    /\ pc = "image_wait"
    /\ Len(gpu_pending) = 1
    /\ gpu_pending[1].image = image_index
    /\ gpu_pending[1].fence # in_flight_fence
    /\ images_in_flight[image_index + 1] = gpu_pending[1].fence

\* C2: the slot index is (frames advanced) mod 2 and within 0..1; between the
\* slot's fence wait and its submit no outstanding batch uses the slot's
\* fence, and no two outstanding batches share a slot.
C2_SlotDiscipline ==
    /\ frame \in Slots
    /\ frame = counter % MAX_FRAMES_IN_FLIGHT
    /\ \A a, b \in 1 .. Len(gpu_pending) :
          a # b => gpu_pending[a].fence # gpu_pending[b].fence
    /\ pc \in {"acquire", "image_wait", "record", "submit"} =>
          /\ in_flight_fence = in_flight_fences(frame)
          /\ log[1] = Event("wait_fence", in_flight_fence)
          /\ \A a \in 1 .. Len(gpu_pending) :
                gpu_pending[a].fence # in_flight_fence

\* C2 witness: the third frame is about to submit on slot 0 again while the
\* batch of slot 1 is still outstanding.
C2_Witness ==
    /\ counter = 2
    /\ frame = 0
    /\ pc = "submit"
    /\ Len(gpu_pending) = 1
    /\ gpu_pending[1].fence = in_flight_fences(1)

\* C3: at most MAX_FRAMES_IN_FLIGHT submitted batches are incomplete.
C3_AtMostTwoOutstanding == Len(gpu_pending) <= MAX_FRAMES_IN_FLIGHT

\* C3 witness: two batches outstanding and the control thread blocked at the
\* slot fence of the older one.
C3_Witness ==
    /\ Len(gpu_pending) = MAX_FRAMES_IN_FLIGHT
    /\ pc = "idle"
    /\ ~fence_signaled[in_flight_fences(frame)]

\* C4 (as claimed): after every rebuild the fence table has the new image
\* count as its length and every entry is the null fence.
C4_RebuildClearsTable ==
    (Has("recreate") /\ pc \in {"queue_wait_idle", "idle"}) =>
        /\ Len(images_in_flight) = swapchain_images
        /\ \A k \in 1 .. Len(images_in_flight) :
              images_in_flight[k] = FenceNull

\* C5: a call whose acquire reported out-of-date rebuilds and returns Ok with
\* the slot index unchanged, the slot's fence not reset, no fence reference
\* bound, nothing submitted and nothing presented.
C5_AcquireOutOfDateAborts ==
    (Has("acquire_out_of_date") /\ pc \in {"recreate_acquire", "idle"}) =>
        /\ pc = "idle" => (ret = "ok" /\ Has("recreate"))
        /\ in_flight_fence = in_flight_fences(frame)
        /\ fence_signaled[in_flight_fence]
        /\ TableNotRebound
        /\ ~Has("advance") /\ ~Has("reset_fence") /\ ~Has("bind")
        /\ ~Has("submit") /\ ~Has("present")
        /\ \A a \in 1 .. Len(gpu_pending) :
              gpu_pending[a].fence # in_flight_fence

\* C5 witness: the second frame's acquire was out of date, the call returned
\* after the rebuild, and the first frame's binding is still in the table.
C5_Witness ==
    /\ Returned
    /\ Has("acquire_out_of_date")
    /\ Has("recreate")
    /\ counter = 1
    /\ frame = 1
    /\ images_in_flight[1] = in_flight_fences(0)

\* C6: once a call is past the present branch, it rebuilds if and only if
\* present returned suboptimal or out-of-date or the resize flag was set.
C6_PresentRebuildIff ==
    (Has("present") /\ PastPresent) =>
        LET rebuilds == pc = "recreate_present" \/ Has("recreate")
            flagged  == \E r \in PresentResults : HasArg("present_" \o r, 1)
        IN  rebuilds <=> \/ Has("present_suboptimal")
                         \/ Has("present_out_of_date")
                         \/ flagged

\* C6 witness: present succeeded plainly, the resize flag alone caused the
\* rebuild, and the call returned Ok.
C6_Witness ==
    /\ Returned
    /\ ret = "ok"
    /\ HasArg("present_success", 1)
    /\ Has("recreate")

\* C7 (as claimed): every present failure other than out-of-date is returned
\* to the caller as an error, with no rebuild, whatever the resize flag.
C7_PresentErrorPropagated ==
    (Has("present_error") /\ PastPresent) =>
        /\ pc = "idle"
        /\ ret = "err"
        /\ ~Has("recreate")

\* A call is consistent for the next one after a rebuild: the slot index is a
\* slot, the table has one entry per image, each null or a slot's fence,
\* nothing is outstanding and every slot fence is signaled.
SyncConsistent ==
    /\ frame \in Slots
    /\ Len(images_in_flight) = swapchain_images
    /\ \A k \in 1 .. Len(images_in_flight) :
          images_in_flight[k] \in Fences \cup {FenceNull}
    /\ gpu_pending = << >>
    /\ \A f \in Fences : fence_signaled[f]

\* C8 (as claimed): every out-of-date or suboptimal result, from acquire or
\* from present, has caused a rebuild by the time the call returns, and the
\* synchronization state is consistent. Calls that return a fatal error are
\* set aside: the claim is read as one about the calls that return Ok.
C8_AnyStaleResultRebuilds ==
    (Returned /\ ret = "ok"
              /\ (\/ Has("acquire_out_of_date") \/ Has("acquire_suboptimal")
                  \/ Has("present_out_of_date") \/ Has("present_suboptimal"))) =>
        (Has("recreate") /\ SyncConsistent)

\* C8 (amended): an out-of-date acquire, and an out-of-date or suboptimal
\* present, have caused a rebuild by the time the call returns Ok, and the
\* synchronization state is consistent; a suboptimal acquire alone does not:
\* the frame goes on to submit and present.
C8_StaleResultRebuilds ==
    /\ (Returned /\ (\/ Has("acquire_out_of_date")
                     \/ Has("present_out_of_date")
                     \/ Has("present_suboptimal"))) =>
          (ret = "ok" /\ Has("recreate") /\ SyncConsistent)
    /\ (Has("acquire_suboptimal") /\ PastPresent) =>
          (Has("submit") /\ Has("present"))

\* C8 witness: present reported suboptimal with the resize flag clear, the
\* call rebuilt, advanced the slot and returned.
C8_Witness ==
    /\ Returned
    /\ HasArg("present_suboptimal", 0)
    /\ Has("recreate")
    /\ Has("advance")

\* C9: a returned call either submitted nothing, reset no fence and bound no
\* fence reference, or bound, recorded, submitted and presented one and the
\* same acquired image, in that order.
C9_AllOrNothing ==
    Returned =>
        IF Has("submit")
        THEN /\ Has("bind") /\ Has("record") /\ Has("present")
             /\ ArgOf("bind") = ArgOf("submit")
             /\ ArgOf("record") = ArgOf("submit")
             /\ ArgOf("present") = ArgOf("submit")
             /\ PosOf("bind") < PosOf("record")
             /\ PosOf("record") < PosOf("submit")
             /\ PosOf("submit") < PosOf("present")
        ELSE /\ ~Has("reset_fence") /\ ~Has("bind") /\ ~Has("present")
             /\ fence_signaled[in_flight_fence]
             /\ TableNotRebound

\* C9 witness: a call returned the acquire error; an earlier frame's batch
\* is still outstanding, untouched by the aborted call.
C9_Witness ==
    /\ Returned
    /\ ret = "err"
    /\ Has("acquire_error")
    /\ Len(gpu_pending) = 1

\* C10: the resize flag goes from set to clear only in the present branch,
\* which then rebuilds; every call that reaches the present branch with the
\* flag set clears it and rebuilds; no other step clears it.
C10_ResizedConsumedAtPresent ==
    [][ /\ (resized /\ ~resized') =>
              (pc = "present" /\ pc' = "recreate_present")
        /\ (resized /\ pc = "present" /\ pc' # "present") =>
              (~resized' /\ pc' = "recreate_present") ]_vars

\* C10 witness: an acquire-time rebuild has returned and the resize flag set
\* before the call is still set.
C10_Witness ==
    /\ Returned
    /\ Has("acquire_out_of_date")
    /\ Has("recreate")
    /\ resized

\* The step destroys objects: it is the rebuild's destroy_swapchain or the
\* teardown of destroy.
DestroysObjects ==
    /\ log' # log
    /\ Len(log') > 1
    /\ log'[Len(log')].op \in {"recreate", "destroy"}

\* C11: every step in which recreate_swapchain or destroy destroys objects
\* comes right after that call's device_wait_idle and is taken with no GPU
\* batch outstanding, so nothing destroyed is still in use by the GPU.
C11_IdleBeforeDestroy ==
    [][ DestroysObjects =>
            /\ gpu_pending = << >>
            /\ gpu_pending' = << >>
            /\ log'[Len(log') - 1].op = "device_wait_idle" ]_vars

\* C11 witness: destroy was entered with two batches outstanding and is
\* blocked in device_wait_idle.
C11_Witness ==
    /\ pc = "destroy"
    /\ Len(gpu_pending) = MAX_FRAMES_IN_FLIGHT

\* ======================================================= object lifecycle
\* App::create, App::recreate_swapchain and App::destroy as the sequence of
\* device calls each makes.  A call that creates or allocates adds its object
\* to alive, a destroy or free removes it.  Per-image vectors (image views,
\* framebuffers, uniform buffers, command pools, fences, semaphores) are one
\* object each; descriptor sets and command buffers live and die with their
\* pool.

\* Number of recreate_swapchain calls in one behaviour.
MaxRebuilds == 2

\* A call that creates obj; by is the function App calls that makes it.
Cr(obj, by) == [op |-> "create", obj |-> obj, by |-> by]

\* A fallible call that creates nothing.
Ca(obj, by) == [op |-> "call", obj |-> obj, by |-> by]

\* A call that cannot fail and creates nothing.
Do(obj, by) == [op |-> "do", obj |-> obj, by |-> by]

\* destroy_*(obj)
De(obj, by) == [op |-> "destroy", obj |-> obj, by |-> by]

\* free_memory(obj)
Fr(obj, by) == [op |-> "free", obj |-> obj, by |-> by]

\* create_buffer: the buffer, the memory type lookup, the allocation, the bind.
create_buffer(buffer, buffer_memory, by) ==
    << Cr(buffer, by),
       Ca("get_memory_type_index", by),
       Cr(buffer_memory, by),
       Ca("bind_buffer_memory", by) >>

\* The staging cleanup freeing the memory and leaving the buffer.
staging_cleanup_memory_only(by) == << Fr("staging_buffer_memory", by) >>

\* device.destroy_buffer(staging_buffer); device.free_memory(staging_buffer_memory)
staging_cleanup(by) ==
    << De("staging_buffer", by), Fr("staging_buffer_memory", by) >>

\* create_vertex_buffer / create_index_buffer: staging buffer, map and copy in,
\* device-local buffer, copy_buffer, staging cleanup.
create_staged_buffer(buffer, buffer_memory, by) ==
    create_buffer("staging_buffer", "staging_buffer_memory", by)
    \o << Ca("map_memory", by), Do("memcpy", by), Do("unmap_memory", by) >>
    \o create_buffer(buffer, buffer_memory, by)
    \o << Ca("copy_buffer", by) >>
    \o staging_cleanup(by)

\* create_instance: the instance and, in a validation build, the messenger.
create_instance(v) ==
    << Ca("enumerate_instance_layer_properties", "create_instance"),
       Cr("instance", "create_instance") >>
    \o (IF v THEN << Cr("messenger", "create_instance") >> ELSE << >>)

\* The calls of create and of recreate_swapchain that build the
\* swapchain-dependent group, except create_swapchain .. create_pipeline.
create_attachments ==
    << Cr("color_image", "create_color_objects"),
       Cr("color_image_memory", "create_color_objects"),
       Cr("color_image_view", "create_color_objects"),
       Cr("depth_image", "create_depth_objects"),
       Cr("depth_image_memory", "create_depth_objects"),
       Cr("depth_image_view", "create_depth_objects"),
       Cr("framebuffers", "create_framebuffers") >>

create_per_image ==
    create_buffer("uniform_buffers", "uniform_buffers_memory",
                  "create_uniform_buffers")
    \o << Cr("descriptor_pool", "create_descriptor_pool"),
          Ca("allocate_descriptor_sets", "create_descriptor_sets"),
          Ca("allocate_command_buffers", "create_command_buffers") >>

\* The body of App::create, in call order.
create_ops(v) ==
    create_instance(v)
    \o << Cr("surface", "create_surface"),
          Ca("pick_physical_device", "pick_physical_device"),
          Cr("device", "create_logical_device"),
          Cr("swapchain", "create_swapchain"),
          Cr("swapchain_image_views", "create_swapchain_image_views"),
          Cr("render_pass", "create_render_pass"),
          Cr("descriptor_set_layout", "create_description_set_layout"),
          Cr("pipeline_layout", "create_pipeline"),
          Cr("pipeline", "create_pipeline"),
          Cr("command_pool", "create_command_pools"),
          Cr("command_pools", "create_command_pools") >>
    \o create_attachments
    \o << Cr("texture_image", "create_texture_image"),
          Cr("texture_image_memory", "create_texture_image"),
          Cr("texture_image_view", "create_texture_image_view"),
          Cr("texture_sampler", "create_texture_sampler"),
          Ca("load_model", "load_model") >>
    \o create_staged_buffer("vertex_buffer", "vertex_buffer_memory",
                            "create_vertex_buffer")
    \o create_staged_buffer("index_buffer", "index_buffer_memory",
                            "create_index_buffer")
    \o create_per_image
    \o << Cr("image_available_semaphore", "create_sync_objects"),
          Cr("render_finished_semaphore", "create_sync_objects"),
          Cr("in_flight_fences", "create_sync_objects") >>

\* The body of App::destroy_swapchain, in call order.
destroy_swapchain ==
    << De("descriptor_pool", "destroy_swapchain"),
       Fr("uniform_buffers_memory", "destroy_swapchain"),
       De("uniform_buffers", "destroy_swapchain"),
       De("depth_image_view", "destroy_swapchain"),
       Fr("depth_image_memory", "destroy_swapchain"),
       De("depth_image", "destroy_swapchain"),
       De("color_image_view", "destroy_swapchain"),
       Fr("color_image_memory", "destroy_swapchain"),
       De("color_image", "destroy_swapchain"),
       De("framebuffers", "destroy_swapchain"),
       De("pipeline", "destroy_swapchain"),
       De("pipeline_layout", "destroy_swapchain"),
       De("render_pass", "destroy_swapchain"),
       De("swapchain_image_views", "destroy_swapchain"),
       De("swapchain", "destroy_swapchain") >>

\* A rebuild that also runs create_sync_objects.
recreate_ops_with_sync_objects ==
    destroy_swapchain
    \o << Cr("swapchain", "create_swapchain"),
          Cr("swapchain_image_views", "create_swapchain_image_views"),
          Cr("render_pass", "create_render_pass"),
          Cr("pipeline_layout", "create_pipeline"),
          Cr("pipeline", "create_pipeline") >>
    \o create_attachments
    \o create_per_image
    \o << Cr("image_available_semaphore", "create_sync_objects"),
          Cr("render_finished_semaphore", "create_sync_objects"),
          Cr("in_flight_fences", "create_sync_objects") >>

\* The body of App::recreate_swapchain after device_wait_idle, in call order.
recreate_ops ==
    destroy_swapchain
    \o << Cr("swapchain", "create_swapchain"),
          Cr("swapchain_image_views", "create_swapchain_image_views"),
          Cr("render_pass", "create_render_pass"),
          Cr("pipeline_layout", "create_pipeline"),
          Cr("pipeline", "create_pipeline") >>
    \o create_attachments
    \o create_per_image

\* The objects App::destroy releases after destroy_swapchain, the device
\* destroyed first.
destroy_rest_device_first(v) ==
    << De("device", "destroy"),
       De("in_flight_fences", "destroy"),
       De("render_finished_semaphore", "destroy"),
       De("image_available_semaphore", "destroy"),
       De("command_pools", "destroy"),
       Fr("index_buffer_memory", "destroy"),
       De("index_buffer", "destroy"),
       Fr("vertex_buffer_memory", "destroy"),
       De("vertex_buffer", "destroy"),
       De("texture_sampler", "destroy"),
       De("texture_image_view", "destroy"),
       Fr("texture_image_memory", "destroy"),
       De("texture_image", "destroy"),
       De("command_pool", "destroy"),
       De("descriptor_set_layout", "destroy"),
       De("surface", "destroy") >>
    \o (IF v THEN << De("messenger", "destroy") >> ELSE << >>)
    \o << De("instance", "destroy") >>

\* The objects App::destroy releases after destroy_swapchain, in call order.
destroy_rest(v) ==
    << De("in_flight_fences", "destroy"),
       De("render_finished_semaphore", "destroy"),
       De("image_available_semaphore", "destroy"),
       De("command_pools", "destroy"),
       Fr("index_buffer_memory", "destroy"),
       De("index_buffer", "destroy"),
       Fr("vertex_buffer_memory", "destroy"),
       De("vertex_buffer", "destroy"),
       De("texture_sampler", "destroy"),
       De("texture_image_view", "destroy"),
       Fr("texture_image_memory", "destroy"),
       De("texture_image", "destroy"),
       De("command_pool", "destroy"),
       De("descriptor_set_layout", "destroy"),
       De("device", "destroy"),
       De("surface", "destroy") >>
    \o (IF v THEN << De("messenger", "destroy") >> ELSE << >>)
    \o << De("instance", "destroy") >>

\* The body of App::destroy after device_wait_idle, in call order.
destroy_ops(v) == destroy_swapchain \o destroy_rest(v)

\* The device call list of the function the control thread is in.
ops_of(where, v) ==
    CASE where = "create" -> create_ops(v)
      [] where = "recreate" -> recreate_ops
      [] where = "destroy" -> destroy_ops(v)
      [] OTHER -> << >>

\* The effect of one device call on the set of live objects.
apply(objs, o) ==
    CASE o.op = "create" -> objs \cup {o.obj}
      [] o.op \in {"destroy", "free"} -> objs \ {o.obj}
      [] OTHER -> objs

\* The render side, parked.
RenderOff ==
    /\ frame = 0
    /\ resized = FALSE
    /\ swapchain_images = 1
    /\ images_in_flight = << >>
    /\ fence_signaled = << >>
    /\ gpu_pending = << >>
    /\ same_queue = TRUE
    /\ pc = "off"
    /\ image_index = 0
    /\ in_flight_fence = FenceNull
    /\ ret = "none"
    /\ log = << >>
    /\ entry_table = << >>
    /\ counter = 0
    /\ uniform_buffers = << >>
    /\ uniform_buffers_memory = << >>
    /\ image_available_semaphore = << >>
    /\ render_finished_semaphore = << >>

\* Before App::create: nothing exists; the build is a validation build or not.
InitTeardown ==
    /\ t_pc = "create"
    /\ t_step = 1
    /\ alive = {}
    /\ history = << >>
    /\ n_rebuilds = 0
    /\ validation \in BOOLEAN
    /\ RenderOff
    /\ RecordOff
    /\ MemoryOff
    /\ OthersOff

\* The control thread makes the next device call of the function it is in and
\* the call succeeds.
DeviceCall(where) ==
    /\ t_pc = where
    /\ t_step <= Len(ops_of(where, validation))
    /\ alive' = apply(alive, ops_of(where, validation)[t_step])
    /\ history' = Append(history, ops_of(where, validation)[t_step])
    /\ t_step' = t_step + 1
    /\ UNCHANGED <<t_pc, n_rebuilds, validation>>
    /\ UNCHANGED not_teardown

\* The next device call of the function fails: the result is unwrapped, so the
\* thread panics where it stands.  Destroy and free calls cannot fail.
Unwrap(where) ==
    /\ t_pc = where
    /\ t_step <= Len(ops_of(where, validation))
    /\ ops_of(where, validation)[t_step].op \in {"create", "call"}
    /\ t_pc' = "panicked"
    /\ history' = Append(history,
                         [ops_of(where, validation)[t_step] EXCEPT
                             !.op = "panic"])
    /\ UNCHANGED <<t_step, alive, n_rebuilds, validation>>
    /\ UNCHANGED not_teardown

\* The function has made its last call and returns to the event loop.
Return(where) ==
    /\ t_pc = where
    /\ t_step > Len(ops_of(where, validation))
    /\ t_pc' = IF where = "destroy" THEN "destroyed" ELSE "running"
    /\ t_step' = 0
    /\ UNCHANGED <<alive, history, n_rebuilds, validation>>
    /\ UNCHANGED not_teardown

\* The event loop calls into `into` (recreate_swapchain from render, or
\* destroy); its device_wait_idle has returned.
Enter(into) ==
    /\ t_pc = "running"
    /\ into = "recreate" => n_rebuilds < MaxRebuilds
    /\ t_pc' = into
    /\ t_step' = 1
    /\ n_rebuilds' = IF into = "recreate" THEN n_rebuilds + 1 ELSE n_rebuilds
    /\ history' = Append(history, Ca("device_wait_idle", into))
    /\ UNCHANGED <<alive, validation>>
    /\ UNCHANGED not_teardown

CreateStep == DeviceCall("create")

CreatePanic == Unwrap("create")

CreateReturn == Return("create")

RebuildEnter == Enter("recreate")

RebuildStep == DeviceCall("recreate")

RebuildPanic == Unwrap("recreate")

RebuildReturn == Return("recreate")

TeardownEnter == Enter("destroy")

TeardownStep == DeviceCall("destroy")

TeardownReturn == Return("destroy")

NextTeardown ==
    \/ CreateStep
    \/ CreatePanic
    \/ CreateReturn
    \/ RebuildEnter
    \/ RebuildStep
    \/ RebuildPanic
    \/ RebuildReturn
    \/ TeardownEnter
    \/ TeardownStep
    \/ TeardownReturn

SpecTeardown == InitTeardown /\ [][NextTeardown]_allvars

\* ------------------------------------------------- claims on the lifecycle
\* The objects of the swapchain-dependent group.
SwapchainGroup ==
    {destroy_swapchain[k].obj : k \in 1 .. Len(destroy_swapchain)}

\* The position in history of the call that created the live instance of obj.
LastCreate(obj) ==
    CHOOSE k \in 1 .. Len(history) :
        /\ history[k].op = "create"
        /\ history[k].obj = obj
        /\ \A j \in (k + 1) .. Len(history) :
              ~(history[j].op = "create" /\ history[j].obj = obj)

\* a was created by an earlier call of create / recreate_swapchain than b.
CreatedBefore(a, b) ==
    /\ history[LastCreate(a)].by # history[LastCreate(b)].by
    /\ LastCreate(a) < LastCreate(b)

\* The control thread is inside destroy_swapchain.
InDestroySwapchain ==
    /\ t_pc \in {"recreate", "destroy"}
    /\ t_step <= Len(destroy_swapchain) + 1

\* C12: while destroy_swapchain runs, the group is destroyed in the reverse of
\* the order in which create / recreate_swapchain created it: an object of the
\* group is alive only if every object of the group created by an earlier
\* call is alive too.
C12_ReverseOfCreation ==
    InDestroySwapchain =>
        \A a, b \in SwapchainGroup :
            (CreatedBefore(a, b) /\ b \in alive) => a \in alive

\* The buffers and the allocation create_buffer binds to each.
buffer_memory ==
    [staging_buffer |-> "staging_buffer_memory",
     vertex_buffer |-> "vertex_buffer_memory",
     index_buffer |-> "index_buffer_memory",
     uniform_buffers |-> "uniform_buffers_memory"]

\* C13: whenever the allocation backing a buffer is freed, the buffer has
\* already been destroyed.
C13_BufferBeforeMemory ==
    [][ \A b \in DOMAIN buffer_memory :
            (buffer_memory[b] \in alive /\ buffer_memory[b] \notin alive')
                => b \notin alive ]_tvars

\* The per-frame sync objects.
SyncObjects ==
    {"in_flight_fences", "render_finished_semaphore",
     "image_available_semaphore"}

\* The buffers and images destroy releases itself.
BuffersAndImages ==
    {"index_buffer_memory", "index_buffer", "vertex_buffer_memory",
     "vertex_buffer", "texture_sampler", "texture_image_view",
     "texture_image_memory", "texture_image"}

\* The objects owned by the instance, not by the device.
InstanceOwned == {"instance", "surface", "messenger"}

\* The tier of an object: 10 the swapchain-dependent group, 20 the per-frame
\* sync objects, 30 buffers and images, 40 descriptor / pipeline / device
\* handles; cp is the tier given to the per-image command pools.
Tier(obj, cp) ==
    CASE obj \in SwapchainGroup -> 10
      [] obj \in SyncObjects -> 20
      [] obj = "command_pools" -> cp
      [] obj \in BuffersAndImages -> 30
      [] OTHER -> 40

\* The position in history of destroy's device_wait_idle.
TeardownStart ==
    CHOOSE k \in 1 .. Len(history) :
        history[k] = Ca("device_wait_idle", "destroy")

\* destroy has released objects in non-decreasing tier order so far.
TierOrdered(cp) ==
    \A p, q \in (TeardownStart + 1) .. Len(history) :
        p < q => Tier(history[p].obj, cp) <= Tier(history[q].obj, cp)

\* Once the device is destroyed no object owned by it is alive.
DeviceAfterOwned == "device" \notin alive => alive \subseteq InstanceOwned

InTeardown == t_pc \in {"destroy", "destroyed"}

CreateFailed ==
    /\ t_pc \in {"panicked", "create_err"}
    /\ history[Len(history)].by \in
          {create_ops(validation)[k].by :
              k \in 1 .. Len(create_ops(validation))}
    /\ n_rebuilds = 0

\* C20: when a step of create fails, every object the earlier steps created
\* has been released.
C20_FailureReleasesAll == CreateFailed => alive = {}

\* ======================================================= command recording
\* App::update_command_buffer and App::update_secondary_command_buffer: what
\* one call records into the primary command buffer of an image and into the
\* secondary command buffers kept for it.  Coordinates and opacity are f32
\* values that are multiples of 0.25; they are held in hundredths.

\* Largest value the public field App.models is set to.
MaxModels == 4

\* Largest number of swapchain images commands are recorded for.
MaxRecordImages == 2

\* App::create: models: 4
InitialModels == 4

\* size_of::<Mat4>(): a 4 x 4 matrix of f32.
SizeOfMat4 == 64

\* The offset of the second cmd_push_constants call.
OpacityOffset == 64

\* opacity.to_ne_bytes().len() for an f32.
SizeOfF32 == 4

ModelCounts == 1 .. MaxModels

RecordImageCounts == 1 .. MaxRecordImages

\* The k-th command buffer allocated from command_pools[image].
Handle(image, k) == [pool |-> image, n |-> k]

\* A command of a primary command buffer.
Cmd(name, arg) == [cmd |-> name, arg |-> arg]

\* A secondary command buffer nothing is recorded in (fresh, or reset with
\* its pool).
Unrecorded ==
    [valid |-> FALSE, model_index |-> 0, translation |-> <<0, 0, 0>>,
     opacity |-> 0, push |-> << >>]

\* The allocation step resizing the list to exactly model_index + 1 handles.
allocate_truncating(command_buffers, image, model_index) ==
    [k \in 1 .. (model_index + 1) |->
        IF k <= Len(command_buffers) THEN command_buffers[k]
        ELSE Handle(image, k)]

\* while model_index >= command_buffers.len() { command_buffers.push(..) }
RECURSIVE allocate(_, _, _)
allocate(command_buffers, image, model_index) ==
    IF model_index >= Len(command_buffers)
    THEN allocate(Append(command_buffers,
                         Handle(image, Len(command_buffers) + 1)),
                  image, model_index)
    ELSE command_buffers

\* The translation with the two index expressions exchanged.
translation_exchanged(model_index) ==
    <<0, ((model_index \div 2) * 250) - 125,
         ((model_index % 2) * (0 - 200)) + 100>>

\* vec3(0.0, y, z) with y = (model_index % 2) as f32 * 2.5 - 1.25 and
\* z = (model_index / 2) as f32 * -2.0 + 1.0
translation(model_index) ==
    <<0, ((model_index % 2) * 250) - 125,
         ((model_index \div 2) * (0 - 200)) + 100>>

\* (model_index + 1) as f32 * 0.25
opacity(model_index) == (model_index + 1) * 25

\* The two push-constant writes, the opacity written at the matrix's last row.
push_constants_overlapping ==
    << [stage |-> "VERTEX", offset |-> 0, size |-> SizeOfMat4],
       [stage |-> "FRAGMENT", offset |-> OpacityOffset - 16,
        size |-> SizeOfF32] >>

\* cmd_push_constants(VERTEX, 0, model_bytes);
\* cmd_push_constants(FRAGMENT, 64, opacity_bytes)
push_constants ==
    << [stage |-> "VERTEX", offset |-> 0, size |-> SizeOfMat4],
       [stage |-> "FRAGMENT", offset |-> OpacityOffset, size |-> SizeOfF32] >>

\* What update_secondary_command_buffer records for drawable model_index.
secondary_contents(model_index) ==
    [valid |-> TRUE, model_index |-> model_index,
     translation |-> translation(model_index),
     opacity |-> opacity(model_index), push |-> push_constants]

\* The collect taking the drawables from the highest index down.
RECURSIVE collect_descending(_, _, _)
collect_descending(command_buffers, image, n) ==
    IF n = 0 THEN [cb |-> command_buffers, out |-> << >>]
    ELSE LET rest == collect_descending(command_buffers, image, n - 1)
             cb == allocate(rest.cb, image, n - 1)
         IN  [cb |-> cb, out |-> << cb[n] >> \o rest.out]

\* (0..self.models).map(|i| self.update_secondary_command_buffer(image, i))
\* .collect(): the list grown by the calls, and the handles they returned.
RECURSIVE collect(_, _, _)
collect(command_buffers, image, n) ==
    IF n = 0 THEN [cb |-> command_buffers, out |-> << >>]
    ELSE LET rest == collect(command_buffers, image, n - 1)
             cb == allocate(rest.cb, image, n - 1)
         IN  [cb |-> cb, out |-> Append(rest.out, cb[n])]

\* create_command_buffers on a rebuild: one list of secondary command buffers
\* per swapchain image; the lists held for the images that remain are kept.
create_command_buffers(lists, n, fresh) == vec_resize(lists, n, fresh)

\* After App::create: no secondary command buffer allocated, nothing recorded.
InitRecord ==
    /\ r_pc = "idle"
    /\ r_image = 0
    /\ r_images \in RecordImageCounts
    /\ models = InitialModels
    /\ secondary_command_buffers = [k \in 1 .. r_images |-> << >>]
    /\ primary = [k \in 1 .. r_images |-> << >>]
    /\ secondary = [k \in 1 .. r_images |-> << >>]
    /\ recorded = [k \in 1 .. r_images |-> {}]
    /\ RenderOff
    /\ TeardownOff
    /\ MemoryOff
    /\ OthersOff

\* App::update_command_buffer(image_index): reset the image's pool, record the
\* primary buffer, recording one secondary buffer per drawable on the way.
UpdateCommandBuffer ==
    \E i \in 0 .. (r_images - 1) :
        LET got == collect(secondary_command_buffers[i + 1], i, models)
        IN  /\ r_pc' = "update"
            /\ r_image' = i
            /\ secondary_command_buffers' =
                  [secondary_command_buffers EXCEPT ![i + 1] = got.cb]
            /\ secondary' =
                  [secondary EXCEPT ![i + 1] =
                      [k \in 1 .. Len(got.cb) |->
                          IF k <= models THEN secondary_contents(k - 1)
                          ELSE Unrecorded]]
            /\ primary' =
                  [primary EXCEPT ![i + 1] =
                      << Cmd("begin_command_buffer", << >>),
                         Cmd("cmd_begin_render_pass", << >>),
                         Cmd("cmd_execute_commands", got.out),
                         Cmd("cmd_end_render_pass", << >>),
                         Cmd("end_command_buffer", << >>) >>]
            /\ recorded' =
                  [recorded EXCEPT ![i + 1] = @ \cup (0 .. (models - 1))]
            /\ UNCHANGED <<r_images, models>>
            /\ UNCHANGED not_record

\* App::recreate_swapchain as far as recording goes: the swapchain reports n
\* images and create_command_buffers allocates the primary buffers anew.
RecordRecreate ==
    \E n \in RecordImageCounts :
        /\ r_pc' = "recreate"
        /\ r_images' = n
        /\ secondary_command_buffers' =
              create_command_buffers(secondary_command_buffers, n, << >>)
        /\ secondary' = create_command_buffers(secondary, n, << >>)
        /\ recorded' = create_command_buffers(recorded, n, {})
        /\ primary' = [k \in 1 .. n |-> << >>]
        /\ UNCHANGED <<r_image, models>>
        /\ UNCHANGED not_record

\* The application sets the public field App.models.
SetModels ==
    \E n \in ModelCounts :
        /\ n # models
        /\ r_pc' = "set_models"
        /\ models' = n
        /\ UNCHANGED <<r_image, r_images, secondary_command_buffers, primary,
                       secondary, recorded>>
        /\ UNCHANGED not_record

NextRecord ==
    \/ UpdateCommandBuffer
    \/ RecordRecreate
    \/ SetModels

SpecRecord == InitRecord /\ [][NextRecord]_allvars

\* ------------------------------------------------- claims on the recording
\* The number of secondary command buffers held for an image is the number of
\* distinct drawable indices ever recorded for it.
CountEqualsRecorded ==
    \A k \in 1 .. Len(secondary_command_buffers) :
        Len(secondary_command_buffers[k]) = Cardinality(recorded[k])

\* No step lowers the number of secondary command buffers of an image that
\* exists before and after it.
CountNeverDecreases ==
    \A k \in 1 .. Len(secondary_command_buffers) :
        k <= Len(secondary_command_buffers') =>
            Len(secondary_command_buffers'[k]) >=
                Len(secondary_command_buffers[k])

\* C15: for each swapchain image the number of secondary command buffers held
\* for it never decreases over render calls and rebuilds, and equals the
\* number of distinct drawable indices ever recorded for that image.
C15_SecondaryCountMonotone ==
    [](CountEqualsRecorded) /\ [][CountNeverDecreases]_rvars

\* C15 witness: an image was just recorded with fewer drawables than it holds
\* secondary command buffers for, and it still holds all of them.
C15_Witness ==
    /\ r_pc = "update"
    /\ models < MaxModels
    /\ Len(secondary_command_buffers[r_image + 1]) = MaxModels
    /\ recorded[r_image + 1] = 0 .. (MaxModels - 1)

\* The positions of command name in the primary command buffer p.
Positions(p, name) == {k \in 1 .. Len(p) : p[k].cmd = name}

\* C16: the primary command buffer just recorded executes, between beginning
\* and ending the render pass, exactly one secondary command buffer per
\* drawable 0 .. models-1, in increasing drawable-index order: the j-th
\* buffer executed is the one recorded for drawable j-1.
C16_ExecutesInDrawableOrder ==
    r_pc = "update" =>
        LET p == primary[r_image + 1]
            e == Positions(p, "cmd_execute_commands")
        IN  /\ Cardinality(e) = 1
            /\ \A x \in e :
                  /\ \E b \in Positions(p, "cmd_begin_render_pass") : b < x
                  /\ \E d \in Positions(p, "cmd_end_render_pass") : x < d
                  /\ \A b \in Positions(p, "cmd_begin_render_pass") : b < x
                  /\ \A d \in Positions(p, "cmd_end_render_pass") : x < d
                  /\ Len(p[x].arg) = models
                  /\ \A j \in 1 .. models :
                        /\ p[x].arg[j] =
                              secondary_command_buffers[r_image + 1][j]
                        /\ secondary[r_image + 1][j].valid
                        /\ secondary[r_image + 1][j].model_index = j - 1
                  /\ \A j, k \in 1 .. models :
                        j # k => p[x].arg[j] # p[x].arg[k]

\* C16 witness: a frame with MaxModels drawables was just recorded for one
\* image while another image holds fewer secondary command buffers.
C16_Witness ==
    /\ r_pc = "update"
    /\ models = MaxModels
    /\ Len(primary[r_image + 1][3].arg) = MaxModels
    /\ \E k \in 1 .. r_images :
          /\ k # r_image + 1
          /\ Len(secondary_command_buffers[k]) < MaxModels

\* C17: whatever the image and whatever was recorded before, the secondary
\* buffer of drawable i holds translation (0, (i mod 2)*2.5 - 1.25,
\* -2*(i div 2) + 1) and opacity (i+1)*0.25, in hundredths; drawable 0 holds
\* (0, -1.25, 1) and 0.25, drawable 3 holds (0, 1.25, -1) and 1.0.
C17_TransformOfIndex ==
    \A k \in 1 .. Len(secondary) :
        \A j \in 1 .. Len(secondary[k]) :
            LET s == secondary[k][j]
                i == j - 1
            IN  s.valid =>
                  /\ s.model_index = i
                  /\ s.translation[1] = 0
                  /\ s.translation[2] = (IF i % 2 = 0 THEN 0 - 125 ELSE 125)
                  /\ s.translation[3] = 100 - 200 * (i \div 2)
                  /\ s.opacity = 25 * i + 25
                  /\ i = 0 => (s.translation = <<0, 0 - 125, 100>>
                               /\ s.opacity = 25)
                  /\ i = 3 => (s.translation = <<0, 125, 0 - 100>>
                               /\ s.opacity = 100)

\* C17 witness: drawable 3 is recorded for two images, one of them in an
\* earlier frame.
C17_Witness ==
    /\ r_images = 2
    /\ Len(secondary[1]) >= 4
    /\ Len(secondary[2]) >= 4
    /\ secondary[1][4].valid
    /\ secondary[2][4].valid

\* The bytes a push-constant write covers.
Bytes(w) == w.offset .. (w.offset + w.size - 1)

\* C18: the two push-constant writes of a recorded secondary buffer cover the
\* bytes [0,64) (model matrix, vertex stage) and [64,68) (opacity, fragment
\* stage), and the two ranges are disjoint.
C18_PushRangesDisjoint ==
    \A k \in 1 .. Len(secondary) :
        \A j \in 1 .. Len(secondary[k]) :
            LET s == secondary[k][j]
            IN  s.valid =>
                  /\ Len(s.push) = 2
                  /\ s.push[1].stage = "VERTEX"
                  /\ s.push[2].stage = "FRAGMENT"
                  /\ Bytes(s.push[1]) = 0 .. 63
                  /\ Bytes(s.push[2]) = 64 .. 67
                  /\ Bytes(s.push[1]) \cap Bytes(s.push[2]) = {}

\* C18 witness: a frame was just recorded and its first secondary buffer
\* holds the two writes.
C18_Witness ==
    /\ r_pc = "update"
    /\ secondary[r_image + 1][1].valid
    /\ Len(secondary[r_image + 1][1].push) = 2

\* ==================================================== memory type selection
\* get_memory_type_index (src/src/lib/vertex_buffer.rs): one call on the
\* memory properties the physical device reports.

\* Length of the memory_types array of the device.
MaxTypes == 3

\* The property flags a memory type may carry.
PropertyFlags == {"DEVICE_LOCAL", "HOST_VISIBLE", "HOST_COHERENT"}

\* The property sets create_buffer is called with.
RequiredProperties ==
    {{"HOST_COHERENT", "HOST_VISIBLE"}, {"DEVICE_LOCAL"}}

\* a & b on unsigned integers.
RECURSIVE BitAnd(_, _)
BitAnd(a, b) ==
    IF a = 0 \/ b = 0 THEN 0
    ELSE (a % 2) * (b % 2) + 2 * BitAnd(a \div 2, b \div 2)

\* 1 << i on a u32; i is below memory_type_count, which is at most 32, so no
\* bit is shifted out.
ShiftLeftOne(i) == 2 ^ i

\* The closure given to find: suitable && property_flags.contains(properties)
matches(i) ==
    LET suitable == BitAnd(memory_type_bits, ShiftLeftOne(i)) # 0
        memory_type == memory_types[i + 1]
    IN  suitable /\ properties \subseteq memory_type

\* A search returning the last index of the range the closure accepts.
RECURSIVE find_last(_, _)
find_last(i, end) ==
    IF i >= end THEN [kind |-> "none", index |-> 0]
    ELSE IF matches(end - 1) THEN [kind |-> "some", index |-> end - 1]
    ELSE find_last(i, end - 1)

\* (i..end).find(matches): the first index of the range the closure accepts.
RECURSIVE find(_, _)
find(i, end) ==
    IF i >= end THEN [kind |-> "none", index |-> 0]
    ELSE IF matches(i) THEN [kind |-> "some", index |-> i]
    ELSE find(i + 1, end)

\* (0..memory.memory_type_count).find(..).ok_or_else(|| anyhow!(..))
get_memory_type_index ==
    LET found == find(0, memory_type_count)
    IN  IF found.kind = "some" THEN [kind |-> "ok", index |-> found.index]
        ELSE [kind |-> "err", index |-> 0]

\* The call is about to be made: any device memory table, any resource
\* bitmask over its types, either property set the program asks for.
InitMemory ==
    /\ m_pc = "call"
    /\ memory_type_count \in 0 .. MaxTypes
    /\ memory_types \in [1 .. MaxTypes -> SUBSET PropertyFlags]
    /\ memory_type_bits \in 0 .. (2 ^ MaxTypes - 1)
    /\ properties \in RequiredProperties
    /\ m_result = [kind |-> "none", index |-> 0]
    /\ RenderOff
    /\ TeardownOff
    /\ RecordOff
    /\ OthersOff

GetMemoryTypeIndex ==
    /\ m_pc = "call"
    /\ m_pc' = "done"
    /\ m_result' = get_memory_type_index
    /\ UNCHANGED <<memory_type_count, memory_types, memory_type_bits,
                   properties>>
    /\ UNCHANGED not_memory

NextMemory == GetMemoryTypeIndex

SpecMemory == InitMemory /\ [][NextMemory]_allvars

\* --------------------------------------------- claim on the memory selection
\* Bit i of the resource's type bitmask is set.
BitSet(i) == (memory_type_bits \div (2 ^ i)) % 2 = 1

\* The indices the claim allows: below the type count, their bit set in the
\* bitmask, their memory type carrying every required property flag.
Eligible ==
    {i \in 0 .. (memory_type_count - 1) :
        /\ BitSet(i)
        /\ \A f \in properties : f \in memory_types[i + 1]}

\* C19: get_memory_type_index returns the lowest eligible index, and returns
\* an error if and only if there is no eligible index.
C19_LowestEligibleIndex ==
    m_pc = "done" =>
        /\ m_result.kind \in {"ok", "err"}
        /\ m_result.kind = "err" <=> Eligible = {}
        /\ m_result.kind = "ok" =>
              /\ m_result.index \in Eligible
              /\ \A j \in Eligible : m_result.index <= j

\* C19 witness: the call returned index 1 although bit 0 is set (type 0 lacks
\* a required flag) and although index 2 is eligible too.
C19_Witness ==
    /\ m_pc = "done"
    /\ m_result.kind = "ok"
    /\ m_result.index = 1
    /\ BitSet(0)
    /\ 2 \in Eligible

\* The staging protocol for destination buffer b, as (op, obj) pairs.
StagingProtocol(b) ==
    << <<"create", "staging_buffer">>, <<"call", "map_memory">>,
       <<"do", "memcpy">>, <<"do", "unmap_memory">>, <<"create", b>>,
       <<"call", "copy_buffer">>, <<"destroy", "staging_buffer">>,
       <<"free", "staging_buffer_memory">> >>

\* The protocol steps function by has made so far, in order.
StagingSteps(b, by) ==
    LET P == StagingProtocol(b)
        IsStep(e) == /\ e.by = by
                     /\ \E k \in 1 .. Len(P) : <<e.op, e.obj>> = P[k]
        made == SelectSeq(history, IsStep)
    IN  [k \in 1 .. Len(made) |-> <<made[k].op, made[k].obj>>]

\* Function by has just made its last call, the free of the staging memory.
JustReturned(by) ==
    /\ history # << >>
    /\ history[Len(history)] = Fr("staging_buffer_memory", by)

\* Function by follows the staging protocol for destination buffer b.
StagedBufferProtocol(b, by) ==
    /\ \E n \in 0 .. Len(StagingProtocol(b)) :
          StagingSteps(b, by) = SubSeq(StagingProtocol(b), 1, n)
    /\ t_pc = "running" => StagingSteps(b, by) = StagingProtocol(b)
    /\ JustReturned(by) =>
          /\ StagingSteps(b, by) = StagingProtocol(b)
          /\ "staging_buffer" \notin alive
          /\ "staging_buffer_memory" \notin alive
          /\ b \in alive
          /\ buffer_memory[b] \in alive

\* C21: create_vertex_buffer and create_index_buffer make the steps of the
\* staging protocol in order (staging buffer, map, copy, unmap, device-local
\* buffer, transfer, destroy staging buffer, free its memory), each once, and
\* when they return the staging buffer and its memory are gone and the
\* device-local buffer and its memory are alive.
C21_StagingProtocol ==
    /\ StagedBufferProtocol("vertex_buffer", "create_vertex_buffer")
    /\ StagedBufferProtocol("index_buffer", "create_index_buffer")

\* C21 witness: create_index_buffer has just returned, after
\* create_vertex_buffer used and released a staging buffer of its own.
C21_Witness ==
    /\ t_pc = "create"
    /\ JustReturned("create_index_buffer")
    /\ StagingSteps("vertex_buffer", "create_vertex_buffer") =
          StagingProtocol("vertex_buffer")

\* The positions in history of the calls with the given op on obj.
Calls(op, obj) ==
    {k \in 1 .. Len(history) : history[k].op = op /\ history[k].obj = obj}

\* The objects a rebuild has to leave alone: the per-frame sync objects and
\* the vertex and index buffers with their memory.
KeptOverRebuild ==
    SyncObjects \cup {"vertex_buffer", "vertex_buffer_memory",
                      "index_buffer", "index_buffer_memory"}

\* Each sync object is created at most once, by create_sync_objects, exists
\* from the return of create on, and is destroyed by destroy only.
SyncCreatedOnce ==
    \A o \in SyncObjects :
        /\ Cardinality(Calls("create", o)) <= 1
        /\ \A k \in Calls("create", o) : history[k].by = "create_sync_objects"
        /\ \A k \in Calls("destroy", o) : history[k].by = "destroy"
        /\ t_pc \in {"running", "recreate"} =>
              (Cardinality(Calls("create", o)) = 1 /\ o \in alive)

\* A step of recreate_swapchain makes no call on a kept object and leaves
\* every one of them alive.
RebuildKeeps ==
    t_pc = "recreate" =>
        /\ KeptOverRebuild \subseteq alive'
        /\ history' # history =>
              history'[Len(history')].obj \notin KeptOverRebuild

ImageInUse(i) == \E k \in 1 .. Len(gpu_pending) : gpu_pending[k].image = i

\* C23: when render is about to reset the acquired image's command pool,
\* re-record its command buffers and rewrite its uniform buffer, no submission
\* that uses that image is outstanding, and the image's fence reference has
\* been waited on in this call.
C23_RecordOnlyIdleImage ==
    pc = "record" =>
        /\ ~ImageInUse(image_index)
        /\ HasArg("bind", image_index)

\* C23 witness: the image about to be recorded was last submitted under the
\* other slot's fence, which this call had to wait on; nothing is outstanding
\* any more.
C23_Witness ==
    /\ pc = "record"
    /\ entry_table[image_index + 1] \notin {FenceNull, in_flight_fence}
    /\ gpu_pending = << >>
    /\ counter >= 2

\* ------------------------------------------------------------------ liveness
\* The render machine with a GPU that completes every batch it was given and
\* a CPU thread that continues when the wait it is blocked in can return.
SpecLive ==
    /\ Spec
    /\ WF_allvars(GPUComplete)
    /\ WF_allvars(RenderImageWait)

\* A fence that is not signaled has a submitted batch that will signal it.
WillSignal(f) ==
    fence_signaled[f] \/ \E k \in 1 .. Len(gpu_pending) : gpu_pending[k].fence = f

\* C24: with a GPU that completes every submitted batch, no fence wait of
\* render blocks forever: every fence is signaled or has a pending submission
\* that signals it, the slot fence read at the start of a call becomes
\* signaled, and the cross-image wait returns.
C24_NoWaitBlocksForever ==
    /\ [](\A f \in Fences : WillSignal(f))
    /\ (pc = "idle" ~> wait_for_fences(in_flight_fences(frame)))
    /\ (pc = "image_wait" ~> pc = "record")

\* C24 witness: the thread is at the cross-image wait, the reference it has to
\* wait on belongs to the other slot and is not signaled yet.
C24_Witness ==
    /\ pc = "image_wait"
    /\ images_in_flight[image_index + 1] \notin {FenceNull, in_flight_fence}
    /\ ~fence_signaled[images_in_flight[image_index + 1]]

\* The slot index the current / last render call read at its entry: the slot
\* whose fence the call waited on first.
EntrySlot == CHOOSE f \in Slots : in_flight_fences(f) = log[1].arg

\* C25: a render call that reached the present step and returned Ok has
\* advanced the slot index by exactly one modulo 2, also when it rebuilt the
\* swapchain at present; until then, and in a call that returns an error from
\* acquire or present, the slot index is the one read at entry.
C25_FrameAdvance ==
    (log # << >> /\ log[1].op = "wait_fence") =>
        IF Returned /\ ret = "ok" /\ Has("present")
        THEN frame = (EntrySlot + 1) % MAX_FRAMES_IN_FLIGHT
        ELSE frame = EntrySlot

\* C25 witness: a call entered on slot 1, rebuilt the swapchain at present and
\* returned Ok.
C25_Witness ==
    /\ Returned
    /\ ret = "ok"
    /\ Has("present")
    /\ Has("recreate")
    /\ log[1] = Event("wait_fence", in_flight_fences(1))
    /\ frame = 0

\* C26: the per-image tables uniform_buffers, uniform_buffers_memory and
\* images_in_flight have one element per swapchain image after create and
\* after every rebuild, so the image index acquire returned is a valid index
\* of each wherever render uses it.
C26_PerImageTableLengths ==
    /\ Len(uniform_buffers) = swapchain_images
    /\ Len(uniform_buffers_memory) = swapchain_images
    /\ Len(images_in_flight) = swapchain_images
    /\ pc \in {"image_wait", "record", "submit"} =>
          /\ image_index + 1 \in DOMAIN uniform_buffers
          /\ image_index + 1 \in DOMAIN uniform_buffers_memory
          /\ image_index + 1 \in DOMAIN images_in_flight

\* C26 witness: a rebuild has just changed the number of swapchain images from
\* three to two.
C26_Witness ==
    /\ Has("recreate")
    /\ pc \in {"queue_wait_idle", "idle"}
    /\ Len(entry_table) = 3
    /\ swapchain_images = 2
    /\ Len(uniform_buffers) = 2

\* The number of queue_submit calls the current / last render call made.
Submits == Cardinality({k \in 1 .. Len(log) : log[k].op = "submit"})

\* The current / last render call acquired an image.
Acquired == Has("acquire_success") \/ Has("acquire_suboptimal")

\* The call is between its successful acquire and its submit.
AcquiredNotSubmitted == pc \in {"image_wait", "record", "submit"}

\* C27: acquire is issued with image_available[frame] only when that semaphore
\* has no signal or wait left from an earlier frame; the signal of a
\* successful acquire is outstanding only until the one submit of the same
\* render call, which waits on it; and the present waits on
\* render_finished[frame], which was unsignaled before the submit of the same
\* call and is signaled by it.
C27_SemaphorePairing ==
    /\ pc = "acquire" => image_available_semaphore[frame] = "unsignaled"
    /\ \A f \in Slots :
          image_available_semaphore[f] = "signaled" =>
              (f = frame /\ AcquiredNotSubmitted)
    /\ AcquiredNotSubmitted =>
          /\ image_available_semaphore[frame] = "signaled"
          /\ Submits = 0
    /\ pc = "submit" => render_finished_semaphore[frame] = "unsignaled"
    /\ pc = "present" =>
          /\ Submits = 1
          /\ image_available_semaphore[frame] \in {"waited", "unsignaled"}
          /\ render_finished_semaphore[frame] \in {"pending", "signaled"}
    /\ (Returned /\ Acquired) => Submits = 1

\* C27 witness: slot 0 is in use for the second time; its acquire signal has
\* been taken by the submit, whose batch has not run yet, and the present is
\* about to wait on the render_finished signal still to come.
C27_Witness ==
    /\ pc = "present"
    /\ counter = 2
    /\ frame = 0
    /\ image_available_semaphore[0] = "waited"
    /\ render_finished_semaphore[0] = "pending"
    /\ Len(gpu_pending) = 2

\* ============================================================== load_model
\* load_model (model.rs) over the meshes tobj returned for the file: one
\* Vertex per mesh index, looked up in a map from vertex to its position in
\* data.vertices. Attribute values are the scalars 0 and 1.
MaxMeshes == 2

MaxMeshIndices == 2

Scalars == {0, 1}

\* The attribute arrays of a mesh with two source vertices: three floats per
\* position, two per texture coordinate.
MeshPositions == {<<x, 0, 0, 1, 0, 0>> : x \in Scalars}

MeshTexcoords == {<<0, 1, 0, 1>>}

\* mesh.indices: between one and MaxMeshIndices indices of source vertices.
MeshIndices ==
    UNION {[1 .. n -> {0, 1}] : n \in 1 .. MaxMeshIndices}

\* tobj::Model.mesh
Meshes ==
    [positions : MeshPositions, texcoords : MeshTexcoords,
     indices : MeshIndices]

\* The Vec<Model> of load_obj_buf: between one and MaxMeshes models.
Files == UNION {[1 .. n -> Meshes] : n \in 1 .. MaxMeshes}

\* Equality of two vertices as Hash and Eq of Vertex decide it: attribute by
\* attribute.
vertex_eq(a, b) ==
    a.pos = b.pos /\ a.color = b.color /\ a.tex_coords = b.tex_coords

\* The Vertex built for one mesh index: the position at 3 * index, white, the
\* texture coordinate at 2 * index with the second component flipped.
Vertex(mesh, index) ==
    LET pos_offset == 3 * index
        tex_coord_offset == 2 * index
    IN  [pos |-> << mesh.positions[pos_offset + 1],
                    mesh.positions[pos_offset + 2],
                    mesh.positions[pos_offset + 3] >>,
         color |-> << 1, 1, 1 >>,
         tex_coords |-> << mesh.texcoords[tex_coord_offset + 1],
                           1 - mesh.texcoords[tex_coord_offset + 2] >>]

\* A lookup that never finds the key.
get_none(map, vertex) == [some |-> FALSE, index |-> 0]

\* unique_vertices.get(&vertex): Some(index) for a key equal to vertex.
get(map, vertex) ==
    IF \E key \in DOMAIN map : vertex_eq(key, vertex)
    THEN [some |-> TRUE,
          index |-> map[CHOOSE key \in DOMAIN map : vertex_eq(key, vertex)]]
    ELSE [some |-> FALSE, index |-> 0]

\* unique_vertices.insert(vertex, index)
insert(map, vertex, index) ==
    [key \in DOMAIN map \cup {vertex} |->
        IF key = vertex THEN index ELSE map[key]]

\* Entry of load_model: data.vertices and data.indices are the empty vectors
\* of AppData::default(), the map is new, the file has been parsed.
InitLoad ==
    /\ l_pc = "loop"
    /\ obj_models \in Files
    /\ l_model = 1
    /\ l_index = 1
    /\ vertices = << >>
    /\ indices = << >>
    /\ unique_vertices = << >>
    /\ RenderOff
    /\ TeardownOff
    /\ RecordOff
    /\ MemoryOff
    /\ LoopOff
    /\ PickOff

\* One pass of the inner loop body.
LoadIndex ==
    /\ l_pc = "loop"
    /\ l_model <= Len(obj_models)
    /\ l_index <= Len(obj_models[l_model].indices)
    /\ LET mesh == obj_models[l_model]
           vertex == Vertex(mesh, mesh.indices[l_index])
           found == get(unique_vertices, vertex)
       IN  IF found.some
           THEN /\ indices' = Append(indices, found.index)
                /\ UNCHANGED <<vertices, unique_vertices>>
           ELSE /\ unique_vertices' =
                      insert(unique_vertices, vertex, Len(vertices))
                /\ vertices' = Append(vertices, vertex)
                /\ indices' = Append(indices, Len(vertices))
    /\ l_index' = l_index + 1
    /\ UNCHANGED <<l_pc, obj_models, l_model>>
    /\ UNCHANGED not_load

\* The inner loop is exhausted: the outer loop takes the next model.
LoadNextModel ==
    /\ l_pc = "loop"
    /\ l_model <= Len(obj_models)
    /\ l_index > Len(obj_models[l_model].indices)
    /\ l_model' = l_model + 1
    /\ l_index' = 1
    /\ UNCHANGED <<l_pc, obj_models, vertices, indices, unique_vertices>>
    /\ UNCHANGED not_load

\* The outer loop is exhausted: Ok(()).
LoadReturn ==
    /\ l_pc = "loop"
    /\ l_model > Len(obj_models)
    /\ l_pc' = "done"
    /\ UNCHANGED <<obj_models, l_model, l_index, vertices, indices,
                   unique_vertices>>
    /\ UNCHANGED not_load

NextLoad ==
    \/ LoadIndex
    \/ LoadNextModel
    \/ LoadReturn

SpecLoad == InitLoad /\ [][NextLoad]_allvars

\* The vertices of the source mesh stream: for each model in file order, for
\* each of its indices in order, the vertex the index names.
RECURSIVE SourceStream(_)
SourceStream(n) ==
    IF n = 0 THEN << >>
    ELSE LET mesh == obj_models[n]
         IN  SourceStream(n - 1)
             \o [k \in 1 .. Len(mesh.indices) |-> Vertex(mesh, mesh.indices[k])]

\* C28: after load_model the index list has one entry per source index, every
\* entry is a valid position of vertices and names a vertex equal to the
\* source vertex of that position, and no two entries of vertices are equal.
C28_IndexedDeduplication ==
    l_pc = "done" =>
        LET stream == SourceStream(Len(obj_models))
        IN  /\ Len(indices) = Len(stream)
            /\ \A k \in 1 .. Len(indices) :
                  /\ indices[k] < Len(vertices)
                  /\ vertices[indices[k] + 1] = stream[k]
            /\ \A a, b \in 1 .. Len(vertices) :
                  a # b => ~vertex_eq(vertices[a], vertices[b])

\* C28 witness: a file of two models whose four source indices name two
\* different vertices, one of them used by both models.
C28_Witness ==
    /\ l_pc = "done"
    /\ Len(obj_models) = 2
    /\ Len(indices) = 4
    /\ Len(vertices) = 2
    /\ indices[2] # indices[1]
    /\ indices[3] = indices[1]

\* ======================================================= main: event loop
\* The closure main gives to event_loop.run, called once per event.
MaxEvents == 4

\* The events the closure tells apart.
Events == {"MainEventsCleared", "CloseRequested", "Other"}

\* An assignment to *control_flow: winit keeps Exit once it has been set.
set_control_flow(old, new) == IF old = "Exit" THEN "Exit" ELSE new

\* The match guard without the test of destroying.
render_guard_always(d) == TRUE

\* Event::MainEventsCleared if !destroying
render_guard(d) == ~d

\* After App::create: the loop starts with destroying = false.
InitLoop ==
    /\ e_pc = "run"
    /\ destroying = FALSE
    /\ control_flow = "Poll"
    /\ calls = << >>
    /\ events = << >>
    /\ RenderOff
    /\ TeardownOff
    /\ RecordOff
    /\ MemoryOff
    /\ LoadOff
    /\ PickOff

\* The loop is running and delivers one more event.
Delivers(event) ==
    /\ e_pc = "run"
    /\ Len(events) < MaxEvents
    /\ events' = Append(events, event)

\* MainEventsCleared with the guard true: app.render(&window).unwrap().
OnMainEventsCleared ==
    /\ Delivers("MainEventsCleared")
    /\ render_guard(destroying)
    /\ control_flow' = set_control_flow(control_flow, "Poll")
    /\ calls' = Append(calls, "render")
    /\ \E ok \in BOOLEAN : e_pc' = IF ok THEN "run" ELSE "panicked"
    /\ UNCHANGED destroying
    /\ UNCHANGED not_loop

\* WindowEvent::CloseRequested: destroying = true; Exit; app.destroy().
OnCloseRequested ==
    /\ Delivers("CloseRequested")
    /\ destroying' = TRUE
    /\ control_flow' =
          set_control_flow(set_control_flow(control_flow, "Poll"), "Exit")
    /\ calls' = Append(calls, "destroy")
    /\ UNCHANGED e_pc
    /\ UNCHANGED not_loop

\* The arm `_ => {}`: any other event, and MainEventsCleared with the guard
\* false.
OnOtherEvent ==
    /\ \E event \in Events \ {"CloseRequested"} :
          /\ event = "MainEventsCleared" => ~render_guard(destroying)
          /\ Delivers(event)
    /\ control_flow' = set_control_flow(control_flow, "Poll")
    /\ UNCHANGED <<e_pc, destroying, calls>>
    /\ UNCHANGED not_loop

\* The event loop reads Exit and stops calling the closure.
LoopExit ==
    /\ e_pc = "run"
    /\ control_flow = "Exit"
    /\ e_pc' = "exited"
    /\ UNCHANGED <<destroying, control_flow, calls, events>>
    /\ UNCHANGED not_loop

NextLoop ==
    \/ OnMainEventsCleared
    \/ OnCloseRequested
    \/ OnOtherEvent
    \/ LoopExit

SpecLoop == InitLoop /\ [][NextLoop]_allvars

\* C29: once destroy has been called, for any later events render is not
\* called again: no call of render follows a call of destroy.
C29_NoRenderAfterDestroy ==
    \A i, j \in 1 .. Len(calls) :
        (i < j /\ calls[i] = "destroy") => calls[j] # "render"

\* C29 witness: a frame was rendered, the close request was handled, and a
\* MainEventsCleared event arrived after it.
C29_Witness ==
    /\ calls = << "render", "destroy" >>
    /\ Len(events) = 3
    /\ events[2] = "CloseRequested"
    /\ events[3] = "MainEventsCleared"

\* ==================================================== pick_physical_device
\* pick_physical_device (physical_device.rs) over the devices the instance
\* enumerates. A device is described by the four things check_physical_device
\* looks at.
MaxDevices == 2

\* queue_families: a graphics and a present queue family exist;
\* extensions: every DEVICE_EXTENSIONS entry is supported;
\* swapchain: formats and present modes are both non-empty;
\* anisotropy: features.sampler_anisotropy == TRUE.
Devices ==
    [queue_families : BOOLEAN, extensions : BOOLEAN, swapchain : BOOLEAN,
     anisotropy : BOOLEAN]

\* QueueFamilyIndices::get: Err when a family is missing.
QueueFamilyIndices_get(device) ==
    IF device.queue_families THEN "ok" ELSE "err"

\* check_physical_device_extensions: Err when an extension is missing.
check_physical_device_extensions(device) ==
    IF device.extensions THEN "ok" ELSE "err"

\* check_physical_device: the first two results are unwrapped, the swapchain
\* and anisotropy tests return Err.
check_physical_device(device) ==
    IF QueueFamilyIndices_get(device) = "err" THEN "panic"
    ELSE IF check_physical_device_extensions(device) = "err" THEN "panic"
    ELSE IF ~device.swapchain THEN "err"
    ELSE IF ~device.anisotropy THEN "err"
    ELSE "ok"

\* Entry of pick_physical_device: enumerate_physical_devices has returned.
InitPick ==
    /\ d_pc = "loop"
    /\ physical_devices \in
          UNION {[1 .. n -> Devices] : n \in 0 .. MaxDevices}
    /\ d_index = 1
    /\ physical_device = 0
    /\ d_result = "none"
    /\ RenderOff
    /\ TeardownOff
    /\ RecordOff
    /\ MemoryOff
    /\ LoadOff
    /\ LoopOff

\* The loop is at a device whose check ends as given.
AtDevice(outcome) ==
    /\ d_pc = "loop"
    /\ d_index <= Len(physical_devices)
    /\ check_physical_device(physical_devices[d_index]) = outcome

\* if let Err(error) = check_physical_device(..) { warn!("Skipping ..") }
PickSkip ==
    /\ AtDevice("err")
    /\ d_index' = d_index + 1
    /\ UNCHANGED <<d_pc, physical_devices, physical_device, d_result>>
    /\ UNCHANGED not_pick

\* else { data.physical_device = physical_device; return Ok(()) }
PickSelect ==
    /\ AtDevice("ok")
    /\ physical_device' = d_index
    /\ d_result' = "ok"
    /\ d_pc' = "done"
    /\ UNCHANGED <<physical_devices, d_index>>
    /\ UNCHANGED not_pick

\* An unwrap inside check_physical_device panics.
PickPanic ==
    /\ AtDevice("panic")
    /\ d_result' = "panic"
    /\ d_pc' = "done"
    /\ UNCHANGED <<physical_devices, d_index, physical_device>>
    /\ UNCHANGED not_pick

\* The loop is exhausted: Err("Failed to Find Physical Device").
PickFail ==
    /\ d_pc = "loop"
    /\ d_index > Len(physical_devices)
    /\ d_result' = "err"
    /\ d_pc' = "done"
    /\ UNCHANGED <<physical_devices, d_index, physical_device>>
    /\ UNCHANGED not_pick

NextPick ==
    \/ PickSkip
    \/ PickSelect
    \/ PickPanic
    \/ PickFail

SpecPick == InitPick /\ [][NextPick]_allvars

\* A device that passes every suitability check.
Suitable(device) ==
    /\ device.queue_families
    /\ device.extensions
    /\ device.swapchain
    /\ device.anisotropy

\* The positions of the suitable devices in enumeration order.
SuitablePositions ==
    {k \in 1 .. Len(physical_devices) : Suitable(physical_devices[k])}

\* C30 (as claimed): pick_physical_device ends with the first suitable device
\* of the enumeration selected, every unsuitable device before it skipped, or
\* with an error when no device is suitable.
C30_FirstSuitableOrError ==
    d_pc = "done" =>
        IF SuitablePositions = {}
        THEN d_result = "err"
        ELSE /\ d_result = "ok"
             /\ physical_device \in SuitablePositions
             /\ \A k \in SuitablePositions : physical_device <= k
====
